---- MODULE Spec2Model ----
(***************************************************************************)
(* Generator functions of advanced-js-concepts (generatorFunction.js):     *)
(* the two generator functions generatorFunction and idGenerator, the      *)
(* handles `generator` and `idGeneratorFunc` created from them, and the    *)
(* statements console.log(<handle>.next()) that advance them.              *)
(*                                                                         *)
(* A generator body is a sequence of instructions; a handle keeps the      *)
(* resume point (pc), the captured variable (id) and the generator state   *)
(* of the language runtime (suspendedStart, suspendedYield, completed).    *)
(***************************************************************************)
EXTENDS Integers, Sequences, FiniteSets, TLC

\* Largest number of next() calls made on one handle.
MaxCalls == 6
\* Largest length of the straight-line generator bodies drawn in InitAny.
MaxProgLen == 3
\* Largest number of calls of calculatePrice, and of printPersonStreet.
MaxFnCalls == 2
\* Largest number of assignments to myName after its declaration.
MaxAssign == 2
\* Largest number of calls of outerFunction.
MaxClosures == 2

\* The two handles of the script.
Handles == {"generator", "idGeneratorFunc"}

\* `undefined`; a defined value v is the one-element sequence <<v>>.
Undefined == <<>>

-----------------------------------------------------------------------------
\* Instructions of a generator body.
Log(t)      == [op |-> "log",      text |-> t,  num |-> 0]
Yield(v)    == [op |-> "yield",    text |-> "", num |-> v]
Let(v)      == [op |-> "let",      text |-> "", num |-> v]
WhileTrue   == [op |-> "while",    text |-> "", num |-> 0]
YieldId     == [op |-> "yieldId",  text |-> "", num |-> 0]
Inc         == [op |-> "inc",      text |-> "", num |-> 0]
EndWhile(p) == [op |-> "endwhile", text |-> "", num |-> p]
\* A statement that fails: throw new Error(...).
Throw       == [op |-> "throw",    text |-> "", num |-> 0]

\* function* generatorFunction() { ... }
generatorFunction ==
    << Log("before 1"), Yield(1),
       Log("after 1"), Log("before 2"), Yield(2),
       Log("after 2"), Log("before 3"), Yield(3),
       Log("after 3") >>

\* idGenerator with `if (true)` for `while (true)`: the body ends after one
\* round.
idGeneratorOnce ==
    << Let(1), WhileTrue, YieldId, Inc >>

\* idGenerator with the increment before the yield.
idGeneratorIncFirst ==
    << Let(1), WhileTrue, Inc, YieldId, EndWhile(2) >>

\* function* idGenerator() { let id = 1; while (true) { yield id; id++ } }
idGenerator ==
    << Let(1), WhileTrue, YieldId, Inc, EndWhile(2) >>

IsYield(ins) == ins.op \in {"yield", "yieldId"}

-----------------------------------------------------------------------------
VARIABLES
    program,   \* program[h]: the body of the generator function h was made from
    state,     \* state[h]: "absent", "suspendedStart", "suspendedYield", "completed"
    pc,        \* pc[h]: index of the instruction at which h resumes
    id,        \* id[h]: the captured variable `id` (Undefined until `let id`)
    console,   \* the console: log lines and printed results, in order
    calls,     \* calls[h]: number of next() calls made on h
    ran,       \* ran[h]: indexes of the instructions h has executed, in order
    history    \* history[h][k]: what the k-th next() call on h did and returned

\* The other scripts of the repository.
VARIABLES
    priceOut,   \* what the calculatePrice calls logged, in order
    streetOut,  \* what the printPersonStreet calls logged, in order
    strict,     \* objectFreeze: the script starts with "use strict"
    person,     \* objectFreeze: the object `person`
    fpc,        \* objectFreeze: the statement the script is at
    ferrAt,     \* objectFreeze: the statement that raised, 0 if none has
    fout,       \* objectFreeze: what console.log(person) printed, in order
    variant,    \* dynamic import: which of the snippets runs
    mainPc,     \* dynamic import: the statement the main file is at
    listener,   \* dynamic import: the click listener is registered
    clicks,     \* dynamic import: clicks made so far
    tasks,      \* dynamic import: click events waiting to be dispatched
    imports,    \* dynamic import: the promise of each import() call
    microtasks, \* dynamic import: promise reactions waiting to run
    out         \* dynamic import: the console, in order

\* closures.js
VARIABLES
    myName,     \* the variable myName of the root scope
    assigned,   \* the values myName was given, in order, the first at its let
    nameOut,    \* what the printName calls logged, in order
    closures,   \* the scope each returned innerFunction keeps, in order of
                \* the outerFunction calls
    outerArgs,  \* the argument of each outerFunction call, in order
    innerOut    \* what the calls of the returned functions logged, in order

genVars == <<program, state, pc, id, console, calls, ran, history>>
fnVars  == <<priceOut, streetOut>>
frzVars == <<strict, person, fpc, ferrAt, fout>>
impVars == <<variant, mainPc, listener, clicks, tasks, imports, microtasks, out>>

closVars == <<myName, assigned, nameOut, closures, outerArgs, innerOut>>

vars == <<genVars, fnVars, frzVars, impVars, closVars>>

\* A line of the console printed by the body of h.
LogLine(h, t) == [h |-> h, kind |-> "log", text |-> t, value |-> Undefined, done |-> FALSE]
\* The line console.log(h.next()) prints for the result { value, done }.
ResultLine(h, v, d) == [h |-> h, kind |-> "result", text |-> "", value |-> v, done |-> d]

RECURSIVE LogLines(_, _)
LogLines(h, ts) ==
    IF ts = <<>> THEN <<>> ELSE <<LogLine(h, Head(ts))>> \o LogLines(h, Tail(ts))

-----------------------------------------------------------------------------
\* Suspend that forgets to move the resume point past the yield.
SuspendNoAdvance(p, env, logs, steps, v) ==
    [pc |-> p, id |-> env, logs |-> logs, steps |-> Append(steps, p),
     value |-> v, done |-> FALSE, state |-> "suspendedYield", threw |-> FALSE]

\* Suspend that resumes one instruction too far.
SuspendSkip(p, env, logs, steps, v) ==
    [pc |-> p + 2, id |-> env, logs |-> logs, steps |-> Append(steps, p),
     value |-> v, done |-> FALSE, state |-> "suspendedYield", threw |-> FALSE]

\* The run of a body reaches a yield at instruction p with value v: the run
\* stops, the handle resumes after the yield.
Suspend(p, env, logs, steps, v) ==
    [pc |-> p + 1, id |-> env, logs |-> logs, steps |-> Append(steps, p),
     value |-> v, done |-> FALSE, state |-> "suspendedYield", threw |-> FALSE]

\* The run of a body falls off its end.
Return(p, env, logs, steps) ==
    [pc |-> p, id |-> env, logs |-> logs, steps |-> steps,
     value |-> Undefined, done |-> TRUE, state |-> "completed",
     threw |-> FALSE]

\* The run of a body fails at instruction p: the exception leaves next() and
\* the generator is completed.
Fail(p, env, logs, steps) ==
    [pc |-> p, id |-> env, logs |-> logs, steps |-> Append(steps, p),
     value |-> Undefined, done |-> FALSE, state |-> "completed",
     threw |-> TRUE]

\* Runs the body from instruction p up to and including the next yield, or
\* to the end of the body.
RECURSIVE Exec(_, _, _, _, _)
Exec(prog, p, env, logs, steps) ==
    IF p > Len(prog) THEN Return(p, env, logs, steps)
    ELSE LET ins == prog[p] IN
         CASE ins.op = "log" ->
                Exec(prog, p + 1, env, Append(logs, ins.text), Append(steps, p))
           [] ins.op = "yield" ->
                Suspend(p, env, logs, steps, <<ins.num>>)
           [] ins.op = "let" ->
                Exec(prog, p + 1, <<ins.num>>, logs, Append(steps, p))
           [] ins.op = "while" ->
                Exec(prog, p + 1, env, logs, Append(steps, p))
           [] ins.op = "yieldId" ->
                Suspend(p, env, logs, steps, env)
           [] ins.op = "inc" ->
                Exec(prog, p + 1, <<env[1] + 1>>, logs, Append(steps, p))
           [] ins.op = "endwhile" ->
                Exec(prog, ins.num, env, logs, Append(steps, p))
           [] ins.op = "throw" ->
                Fail(p, env, logs, steps)

\* Resume that starts a completed generator again from the top.
ResumeRestart(prog, st, p, env) ==
    IF st = "completed"
    THEN Exec(prog, 1, Undefined, <<>>, <<>>)
    ELSE Exec(prog, p, env, <<>>, <<>>)

\* Resume that reports done as soon as no yield is left, without running the
\* rest of the body.
ResumeSkipTail(prog, st, p, env) ==
    IF st = "completed" \/ ~ \E q \in p..Len(prog) : IsYield(prog[q])
    THEN [pc |-> p, id |-> env, logs |-> <<>>, steps |-> <<>>,
          value |-> Undefined, done |-> TRUE, state |-> "completed",
     threw |-> FALSE]
    ELSE Exec(prog, p, env, <<>>, <<>>)

\* Resume that runs on to the yield after the next one, to have the next
\* value ready.
ResumePrefetch(prog, st, p, env) ==
    IF st = "completed"
    THEN [pc |-> p, id |-> env, logs |-> <<>>, steps |-> <<>>,
          value |-> Undefined, done |-> TRUE, state |-> "completed",
     threw |-> FALSE]
    ELSE LET r1 == Exec(prog, p, env, <<>>, <<>>)
             r2 == Exec(prog, r1.pc, r1.id, r1.logs, r1.steps)
         IN  IF r1.done THEN r1
             ELSE [r2 EXCEPT !.value = r1.value, !.done = FALSE]

\* Resume that catches what the body throws and reports the generator done.
ResumeSwallow(prog, st, p, env) ==
    IF st = "completed"
    THEN [pc |-> p, id |-> env, logs |-> <<>>, steps |-> <<>>,
          value |-> Undefined, done |-> TRUE, state |-> "completed",
          threw |-> FALSE]
    ELSE LET r == Exec(prog, p, env, <<>>, <<>>) IN
         IF r.threw THEN [r EXCEPT !.threw = FALSE, !.done = TRUE] ELSE r

\* Resume that does not look at the generator state and runs the body again
\* from the saved resume point.
ResumeRetry(prog, st, p, env) ==
    Exec(prog, p, env, <<>>, <<>>)

\* next() on a handle in state st: a completed generator returns
\* { value: undefined, done: true } and runs nothing.
Resume(prog, st, p, env) ==
    IF st = "completed"
    THEN [pc |-> p, id |-> env, logs |-> <<>>, steps |-> <<>>,
          value |-> Undefined, done |-> TRUE, state |-> "completed",
     threw |-> FALSE]
    ELSE Exec(prog, p, env, <<>>, <<>>)

-----------------------------------------------------------------------------
\* Create that runs the body up to its first yield.
CreateEager(h) ==
    /\ state[h] = "absent"
    /\ LET r == Exec(program[h], 1, Undefined, <<>>, <<>>) IN
        /\ state' = [state EXCEPT ![h] = r.state]
        /\ pc' = [pc EXCEPT ![h] = r.pc]
        /\ id' = [id EXCEPT ![h] = r.id]
        /\ console' = console \o LogLines(h, r.logs)
        /\ ran' = [ran EXCEPT ![h] = @ \o r.steps]
    /\ UNCHANGED <<program, calls, history>>
    /\ UNCHANGED <<fnVars, frzVars, impVars, closVars>>

\* next() that keeps the captured id in one place for all handles.
CallNextShared(h) ==
    /\ state[h] # "absent"
    /\ calls[h] < MaxCalls
    /\ LET r == Resume(program[h], state[h], pc[h], id[h]) IN
        /\ state' = [state EXCEPT ![h] = r.state]
        /\ pc' = [pc EXCEPT ![h] = r.pc]
        /\ id' = [g \in Handles |-> r.id]
        /\ console' = console \o LogLines(h, r.logs)
                              \o (IF r.threw THEN <<>>
                                  ELSE <<ResultLine(h, r.value, r.done)>>)
        /\ calls' = [calls EXCEPT ![h] = @ + 1]
        /\ ran' = [ran EXCEPT ![h] = @ \o r.steps]
        /\ history' = [history EXCEPT ![h] =
                          Append(@, [steps |-> r.steps, logs |-> r.logs,
                                     value |-> r.value, done |-> r.done,
                                     threw |-> r.threw, by |-> "script"])]
    /\ UNCHANGED program
    /\ UNCHANGED <<fnVars, frzVars, impVars, closVars>>

\* const generator = generatorFunction();  const idGeneratorFunc = idGenerator();
Create(h) ==
    /\ state[h] = "absent"
    /\ state' = [state EXCEPT ![h] = "suspendedStart"]
    /\ pc' = [pc EXCEPT ![h] = 1]
    /\ id' = [id EXCEPT ![h] = Undefined]
    /\ UNCHANGED <<program, console, calls, ran, history>>
    /\ UNCHANGED <<fnVars, frzVars, impVars, closVars>>

\* next() where only the caller that made the first call works on the handle
\* itself; any other caller works on a copy of it, which is thrown away.
CallNextByCopy(c, h) ==
    /\ state[h] # "absent"
    /\ calls[h] < MaxCalls
    /\ LET r    == Resume(program[h], state[h], pc[h], id[h])
           owns == history[h] = <<>> \/ history[h][1].by = c
       IN
        /\ state' = [state EXCEPT ![h] = IF owns THEN r.state ELSE @]
        /\ pc' = [pc EXCEPT ![h] = IF owns THEN r.pc ELSE @]
        /\ id' = [id EXCEPT ![h] = IF owns THEN r.id ELSE @]
        /\ console' = console \o LogLines(h, r.logs)
                              \o (IF r.threw THEN <<>>
                                  ELSE <<ResultLine(h, r.value, r.done)>>)
        /\ calls' = [calls EXCEPT ![h] = @ + 1]
        /\ ran' = [ran EXCEPT ![h] = @ \o r.steps]
        /\ history' = [history EXCEPT ![h] =
                          Append(@, [steps |-> r.steps, logs |-> r.logs,
                                     value |-> r.value, done |-> r.done,
                                     threw |-> r.threw, by |-> c])]
    /\ UNCHANGED program
    /\ UNCHANGED <<fnVars, frzVars, impVars, closVars>>

\* The caller c runs console.log(h.next()).
CallNextBy(c, h) ==
    /\ state[h] # "absent"
    /\ calls[h] < MaxCalls
    /\ LET r == Resume(program[h], state[h], pc[h], id[h]) IN
        /\ state' = [state EXCEPT ![h] = r.state]
        /\ pc' = [pc EXCEPT ![h] = r.pc]
        /\ id' = [id EXCEPT ![h] = r.id]
        /\ console' = console \o LogLines(h, r.logs)
                              \o (IF r.threw THEN <<>>
                                  ELSE <<ResultLine(h, r.value, r.done)>>)
        /\ calls' = [calls EXCEPT ![h] = @ + 1]
        /\ ran' = [ran EXCEPT ![h] = @ \o r.steps]
        /\ history' = [history EXCEPT ![h] =
                          Append(@, [steps |-> r.steps, logs |-> r.logs,
                                     value |-> r.value, done |-> r.done,
                                     threw |-> r.threw, by |-> c])]
    /\ UNCHANGED program
    /\ UNCHANGED <<fnVars, frzVars, impVars, closVars>>

\* console.log(h.next()), the script being the caller.
CallNext(h) == CallNextBy("script", h)

-----------------------------------------------------------------------------
\* Values of the other scripts: undefined, null, a number, an object.
UndefinedV == [kind |-> "undefined", n |-> 0]
NullV      == [kind |-> "null", n |-> 0]
Num(n)     == [kind |-> "number", n |-> n]
Nullish    == {"undefined", "null"}

\* The default tax .05, in hundredths.
DefaultTax == 5

\* a || b on a number argument: 0 counts as false.
LogicalOr(v, d) ==
    IF v.kind \in Nullish \/ (v.kind = "number" /\ v.n = 0) THEN d ELSE v

\* a ?? b
NullishCoalesce(v, d) == IF v.kind \in Nullish THEN d ELSE v

\* calculatePrice(price, taxes, description): the line it logs; taxes and
\* total are in hundredths, so price * (1 + taxes) is price * (100 + taxes).
calculatePrice(price, taxes, description) ==
    LET t     == NullishCoalesce(taxes, Num(DefaultTax))
        total == price * (100 + t.n)
    IN  [description |-> description, total |-> total]

\* The arguments calculatePrice is called with.
Prices  == {0, 100}
TaxArgs == {UndefinedV, NullV, Num(0), Num(5), Num(70)}

\* calculatePrice(price, taxes, "Book");
CallCalculatePrice ==
    /\ Len(priceOut) < MaxFnCalls
    /\ \E price \in Prices, taxes \in TaxArgs :
          priceOut' = Append(priceOut,
                             [price |-> price, taxes |-> taxes,
                              line |-> calculatePrice(price, taxes, "Book")])
    /\ UNCHANGED <<streetOut, genVars, frzVars, impVars, closVars>>

\* An address and a person, as printPersonStreet reads them.
UndefAddr   == [kind |-> "undefined", street |-> UndefinedV]
NullAddr    == [kind |-> "null", street |-> UndefinedV]
UndefPerson == [kind |-> "undefined", address |-> UndefAddr]
NullPerson  == [kind |-> "null", address |-> UndefAddr]

AddressArgs ==
    {UndefAddr, NullAddr}
        \cup {[kind |-> "object", street |-> st] : st \in {UndefinedV, Num(123)}}
PersonArgs ==
    {UndefPerson, NullPerson}
        \cup {[kind |-> "object", address |-> a] : a \in AddressArgs}

\* base.prop: raises a TypeError when base is undefined or null.
PlainAccess(base, v, undef) ==
    IF base.kind \in Nullish
    THEN [threw |-> TRUE, value |-> undef]
    ELSE [threw |-> FALSE, value |-> v]

\* base?.prop, v being the value of the property and undef the undefined
\* value: undefined when base is undefined or null.
OptionalChain(base, v, undef) ==
    IF base.kind \in Nullish
    THEN [threw |-> FALSE, value |-> undef]
    ELSE [threw |-> FALSE, value |-> v]

\* printPersonStreet(person): console.log(person?.address?.street)
printPersonStreet(p) ==
    LET a  == OptionalChain(p, p.address, UndefAddr)
        st == OptionalChain(a.value, a.value.street, UndefinedV)
    IN  [threw |-> a.threw \/ st.threw, logged |-> st.value]

\* printPersonStreet(person);
CallPrintPersonStreet ==
    /\ Len(streetOut) < MaxFnCalls
    /\ \E p \in PersonArgs :
          streetOut' = Append(streetOut,
                              [person |-> p, res |-> printPersonStreet(p)])
    /\ UNCHANGED <<priceOut, genVars, frzVars, impVars, closVars>>

FnStart ==
    /\ priceOut = <<>>
    /\ streetOut = <<>>

NextFn == CallCalculatePrice \/ CallPrintPersonStreet

-----------------------------------------------------------------------------
\* objectFreeze.js and the variants of it the README goes through.

\* { street: 123 } and ['eating', 'sleeping'], or no such property.
NoAddress  == [exists |-> FALSE, frozen |-> FALSE, street |-> 0]
AddressLit == [exists |-> TRUE, frozen |-> FALSE, street |-> 123]
NoHobbies  == [exists |-> FALSE, frozen |-> FALSE, items |-> <<>>]
HobbiesLit == [exists |-> TRUE, frozen |-> FALSE, items |-> <<"eating", "sleeping">>]

\* { name: 'shay', age: 29, favoriteFood: "pizza", address: ..., hobbies: ... }
PersonLit(addr, hob) ==
    [frozen |-> FALSE, name |-> "shay", age |-> 29, favoriteFood |-> "pizza",
     address |-> addr, hobbies |-> hob]

\* Object.freeze(obj): freezes obj itself, not the objects it refers to.
ObjectFreeze(obj) == [obj EXCEPT !.frozen = TRUE]

\* obj.prop = new in a script that is strict or not, old being the value of
\* the property: a frozen object keeps old, and strict code raises.
SetPropertyAlways(obj, isStrict, old, new) ==
    [threw |-> FALSE, value |-> new]

SetProperty(obj, isStrict, old, new) ==
    IF obj.frozen
    THEN [threw |-> isStrict, value |-> old]
    ELSE [threw |-> FALSE, value |-> new]

\* arr.push(item): a frozen array raises, strict code or not.
ArrayPushSilent(arr, item) ==
    IF arr.frozen
    THEN [threw |-> FALSE, items |-> arr.items]
    ELSE [threw |-> FALSE, items |-> Append(arr.items, item)]

ArrayPush(arr, item) ==
    IF arr.frozen
    THEN [threw |-> TRUE, items |-> arr.items]
    ELSE [threw |-> FALSE, items |-> Append(arr.items, item)]

\* The statements of the script: 1 console.log(person), 2 person.name =
\* "john", 3 person.address.street = 6587, 4 person.hobbies.push('coding'),
\* 5 console.log(person); 6 is the end. A variant without address or hobbies
\* has no statement 3 or 4.
FEnd == 6
FStatements ==
    {1, 2, 5} \cup (IF person.address.exists THEN {3} ELSE {})
              \cup (IF person.hobbies.exists THEN {4} ELSE {})
FAfter(k) ==
    IF \E q \in FStatements : q > k
    THEN CHOOSE q \in FStatements : q > k /\ \A q2 \in FStatements : q2 > k => q <= q2
    ELSE FEnd

\* console.log(person);
LogPerson ==
    /\ fpc \in {1, 5}
    /\ fout' = Append(fout, person)
    /\ fpc' = FAfter(fpc)
    /\ UNCHANGED <<strict, person, ferrAt, genVars, fnVars, impVars, closVars>>

\* person.name = "john";
AssignName ==
    /\ fpc = 2
    /\ LET r == SetProperty(person, strict, person.name, "john") IN
          IF r.threw
          THEN /\ ferrAt' = 2
               /\ fpc' = FEnd
               /\ UNCHANGED person
          ELSE /\ person' = [person EXCEPT !.name = r.value]
               /\ fpc' = FAfter(2)
               /\ UNCHANGED ferrAt
    /\ UNCHANGED <<strict, fout, genVars, fnVars, impVars, closVars>>

\* The assignment to street made to obey the freeze of the outer object.
AssignStreetInherit ==
    /\ fpc = 3
    /\ LET r == SetProperty([person.address EXCEPT !.frozen = @ \/ person.frozen],
                            strict, person.address.street, 6587) IN
          IF r.threw
          THEN /\ ferrAt' = 3
               /\ fpc' = FEnd
               /\ UNCHANGED person
          ELSE /\ person' = [person EXCEPT !.address.street = r.value]
               /\ fpc' = FAfter(3)
               /\ UNCHANGED ferrAt
    /\ UNCHANGED <<strict, fout, genVars, fnVars, impVars, closVars>>

\* person.address.street = 6587;
AssignStreet ==
    /\ fpc = 3
    /\ LET r == SetProperty(person.address, strict, person.address.street, 6587) IN
          IF r.threw
          THEN /\ ferrAt' = 3
               /\ fpc' = FEnd
               /\ UNCHANGED person
          ELSE /\ person' = [person EXCEPT !.address.street = r.value]
               /\ fpc' = FAfter(3)
               /\ UNCHANGED ferrAt
    /\ UNCHANGED <<strict, fout, genVars, fnVars, impVars, closVars>>

\* person.hobbies.push('coding');
PushHobby ==
    /\ fpc = 4
    /\ LET r == ArrayPush(person.hobbies, "coding") IN
          IF r.threw
          THEN /\ ferrAt' = 4
               /\ fpc' = FEnd
               /\ UNCHANGED person
          ELSE /\ person' = [person EXCEPT !.hobbies.items = r.items]
               /\ fpc' = FAfter(4)
               /\ UNCHANGED ferrAt
    /\ UNCHANGED <<strict, fout, genVars, fnVars, impVars, closVars>>

\* The start of the script for a person literal, frozen or not.
FreezeStart(isStrict, p) ==
    /\ strict = isStrict
    /\ person = p
    /\ fpc = 1
    /\ ferrAt = 0
    /\ fout = <<>>

\* The person of objectFreeze.js: everything frozen.
objectFreezePerson ==
    ObjectFreeze(PersonLit(ObjectFreeze(AddressLit), ObjectFreeze(HobbiesLit)))

\* The persons of the README: frozen or not, with or without an address and
\* hobbies, each frozen or not.
PersonVariants ==
    LET lits == {PersonLit(a, h) :
                    a \in {NoAddress, AddressLit, ObjectFreeze(AddressLit)},
                    h \in {NoHobbies, HobbiesLit, ObjectFreeze(HobbiesLit)}}
    IN  lits \cup {ObjectFreeze(l) : l \in lits}

NextFreeze == LogPerson \/ AssignName \/ AssignStreet \/ PushHobby

-----------------------------------------------------------------------------
\* Dynamically imported modules: the README's three snippets. "then":
\* import(...).then(cb) in the main file; "clickThen": the same inside a click
\* listener; "clickAwait": the click listener is async and awaits import(...).
Variants == {"then", "clickThen", "clickAwait"}
\* Largest number of clicks.
MaxClicks == 3
MainEnd == 3

\* import("./module.js") is called: a new pending promise with one reaction,
\* the then() callback or the rest of the async listener.
ImportCall == Append(imports, "pending")

\* Main file, statement 1 of "then":
\* import("./module.js").then(({default: printModule}) => { printModule(); })
MainImport ==
    /\ variant = "then"
    /\ mainPc = 1
    /\ imports' = ImportCall
    /\ mainPc' = 2
    /\ UNCHANGED <<variant, listener, clicks, tasks, microtasks, out>>
    /\ UNCHANGED <<genVars, fnVars, frzVars, closVars>>

\* Main file, statement 1 of the click snippets:
\* document.addEventListener('click', ...)
MainAddListener ==
    /\ variant \in {"clickThen", "clickAwait"}
    /\ mainPc = 1
    /\ listener' = TRUE
    /\ mainPc' = 2
    /\ UNCHANGED <<variant, clicks, tasks, imports, microtasks, out>>
    /\ UNCHANGED <<genVars, fnVars, frzVars, closVars>>

\* Main file, statement 2: console.log("in main file");
MainLog ==
    /\ mainPc = 2
    /\ out' = Append(out, "in main file")
    /\ mainPc' = MainEnd
    /\ UNCHANGED <<variant, listener, clicks, tasks, imports, microtasks>>
    /\ UNCHANGED <<genVars, fnVars, frzVars, closVars>>

\* The user clicks: the event waits for the listener, if one is registered.
Click ==
    /\ variant \in {"clickThen", "clickAwait"}
    /\ clicks < MaxClicks
    /\ clicks' = clicks + 1
    /\ tasks' = IF listener THEN tasks + 1 ELSE tasks
    /\ UNCHANGED <<variant, mainPc, listener, imports, microtasks, out>>
    /\ UNCHANGED <<genVars, fnVars, frzVars, closVars>>

\* The event loop runs the listener for a click: no code is running and no
\* reaction is waiting. The listener calls import() and returns (at its
\* then(), or at its await).
DispatchClick ==
    /\ mainPc = MainEnd
    /\ microtasks = <<>>
    /\ tasks > 0
    /\ tasks' = tasks - 1
    /\ imports' = ImportCall
    /\ UNCHANGED <<variant, mainPc, listener, clicks, microtasks, out>>
    /\ UNCHANGED <<genVars, fnVars, frzVars, closVars>>

\* The module of import call i is loaded: its promise is fulfilled and its
\* reaction waits to run.
ModuleLoaded(i) ==
    /\ imports[i] = "pending"
    /\ imports' = [imports EXCEPT ![i] = "fulfilled"]
    /\ microtasks' = Append(microtasks, i)
    /\ UNCHANGED <<variant, mainPc, listener, clicks, tasks, out>>
    /\ UNCHANGED <<genVars, fnVars, frzVars, closVars>>

\* A reaction run as soon as its promise is fulfilled, whatever is running.
RunReactionAtOnce ==
    /\ microtasks # <<>>
    /\ out' = Append(out, "this is a module")
    /\ microtasks' = Tail(microtasks)
    /\ UNCHANGED <<variant, mainPc, listener, clicks, tasks, imports>>
    /\ UNCHANGED <<genVars, fnVars, frzVars, closVars>>

\* The event loop runs the first waiting reaction once no code is running:
\* printModule() logs "this is a module".
RunReaction ==
    /\ mainPc = MainEnd
    /\ microtasks # <<>>
    /\ out' = Append(out, "this is a module")
    /\ microtasks' = Tail(microtasks)
    /\ UNCHANGED <<variant, mainPc, listener, clicks, tasks, imports>>
    /\ UNCHANGED <<genVars, fnVars, frzVars, closVars>>

ImportStart(v) ==
    /\ variant = v
    /\ mainPc = 1
    /\ listener = FALSE
    /\ clicks = 0
    /\ tasks = 0
    /\ imports = <<>>
    /\ microtasks = <<>>
    /\ out = <<>>

NextImport ==
    \/ MainImport
    \/ MainAddListener
    \/ MainLog
    \/ Click
    \/ DispatchClick
    \/ \E i \in 1..Len(imports) : ModuleLoaded(i)
    \/ RunReaction

-----------------------------------------------------------------------------
\* closures.js

\* The values myName is given.
Names == {"shay", "Yossi"}

\* A function that keeps the value the outer variable had when the function
\* was declared.
ReadDeclaredValue(current, atDeclaration) == atDeclaration

\* The body of a function reads a variable of an outer scope: it finds the
\* variable itself, with the value it has at the time of the call.
ReadOuterVariable(current, atDeclaration) == current

\* myName = "Yossi";
AssignMyName ==
    /\ Len(assigned) < MaxAssign + 1
    /\ \E v \in Names :
          /\ myName' = v
          /\ assigned' = Append(assigned, v)
    /\ UNCHANGED <<nameOut, closures, outerArgs, innerOut>>
    /\ UNCHANGED <<genVars, fnVars, frzVars, impVars>>

\* printName();  which runs console.log(myName)
CallPrintName ==
    /\ Len(nameOut) < MaxFnCalls
    /\ nameOut' = Append(nameOut,
                         [printed |-> ReadOuterVariable(myName, "shay"),
                          after |-> Len(assigned)])
    /\ UNCHANGED <<myName, assigned, closures, outerArgs, innerOut>>
    /\ UNCHANGED <<genVars, fnVars, frzVars, impVars>>

\* const outerConst = 'im an outer variable';
OuterConst == "im an outer variable"

\* The scope of one call of outerFunction(outerVariable).
NewScope(outerVariable) ==
    [outerVariable |-> outerVariable, outerConst |-> OuterConst]

\* The arguments outerFunction and the returned functions are called with.
OuterArgs == {"outside", "other"}
InnerArgs == {"inside"}

\* outerFunction that has one scope for all its calls: a call overwrites
\* what the functions returned before see.
CallOuterFunctionShared ==
    /\ Len(closures) < MaxClosures
    /\ \E arg \in OuterArgs :
          /\ closures' = [i \in 1..(Len(closures) + 1) |-> NewScope(arg)]
          /\ outerArgs' = Append(outerArgs, arg)
    /\ UNCHANGED <<myName, assigned, nameOut, innerOut>>
    /\ UNCHANGED <<genVars, fnVars, frzVars, impVars>>

\* const newFunction = outerFunction("outside");  the call runs to its
\* return, and the returned innerFunction keeps the scope of the call.
CallOuterFunction ==
    /\ Len(closures) < MaxClosures
    /\ \E arg \in OuterArgs :
          /\ closures' = Append(closures, NewScope(arg))
          /\ outerArgs' = Append(outerArgs, arg)
    /\ UNCHANGED <<myName, assigned, nameOut, innerOut>>
    /\ UNCHANGED <<genVars, fnVars, frzVars, impVars>>

\* innerFunction(innerVariable) in the scope it keeps: its three log lines.
innerFunction(scope, innerVariable) ==
    << <<"Outer variable: ", scope.outerVariable>>,
       <<"Inner variable: ", innerVariable>>,
       <<"Outer const: ", scope.outerConst>> >>

\* newFunction("inside");  for any of the returned functions
CallInnerFunction ==
    /\ Len(innerOut) < MaxFnCalls
    /\ \E i \in 1..Len(closures), arg \in InnerArgs :
          innerOut' = Append(innerOut,
                             [fn |-> i, innerVariable |-> arg,
                              lines |-> innerFunction(closures[i], arg)])
    /\ UNCHANGED <<myName, assigned, nameOut, closures, outerArgs>>
    /\ UNCHANGED <<genVars, fnVars, frzVars, impVars>>

\* let myName = "shay"; and no call made yet.
ClosuresStart ==
    /\ myName = "shay"
    /\ assigned = <<"shay">>
    /\ nameOut = <<>>
    /\ closures = <<>>
    /\ outerArgs = <<>>
    /\ innerOut = <<>>

NextClosures ==
    AssignMyName \/ CallPrintName \/ CallOuterFunction \/ CallInnerFunction

-----------------------------------------------------------------------------
\* Every script at its first statement, as the repository has it.
ScriptsStart ==
    /\ FnStart
    /\ FreezeStart(FALSE, objectFreezePerson)
    /\ ImportStart("then")
    /\ ClosuresStart

InitState ==
    /\ state = [h \in Handles |-> "absent"]
    /\ pc = [h \in Handles |-> 1]
    /\ id = [h \in Handles |-> Undefined]
    /\ console = <<>>
    /\ calls = [h \in Handles |-> 0]
    /\ ran = [h \in Handles |-> <<>>]
    /\ history = [h \in Handles |-> <<>>]
    /\ ScriptsStart

\* The script: generator is made from generatorFunction, idGeneratorFunc from
\* idGenerator.
Init ==
    /\ program = [h \in Handles |->
                    IF h = "generator" THEN generatorFunction ELSE idGenerator]
    /\ InitState

Next == \E h \in Handles : Create(h) \/ CallNext(h)

Spec == Init /\ [][Next]_vars

-----------------------------------------------------------------------------
\* Straight-line generator bodies of at most MaxProgLen instructions.
Alphabet == {Log("x"), Yield(1), Yield(2)}
FinitePrograms == UNION {[1..n -> Alphabet] : n \in 0..MaxProgLen}

\* As Init, with the body of `generator` any straight-line body or
\* generatorFunction itself.
InitAny ==
    /\ program \in {[h \in Handles |->
                        IF h = "generator" THEN P ELSE idGenerator] :
                    P \in FinitePrograms \cup {generatorFunction}}
    /\ InitState

SpecAny == InitAny /\ [][Next]_vars

\* Bodies of log statements, a yield and failing statements, with at least
\* one failing statement.
AlphabetThrow == {Log("x"), Yield(1), Throw}
ThrowPrograms ==
    {P \in UNION {[1..n -> AlphabetThrow] : n \in 1..MaxProgLen} :
        \E p \in 1..Len(P) : P[p].op = "throw"}

\* As Init, with the body of `generator` any body of ThrowPrograms.
InitThrow ==
    /\ program \in {[h \in Handles |->
                        IF h = "generator" THEN P ELSE idGenerator] :
                    P \in ThrowPrograms}
    /\ InitState

SpecThrow == InitThrow /\ [][Next]_vars

\* Both handles made from idGenerator.
InitTwo ==
    /\ program = [h \in Handles |-> idGenerator]
    /\ InitState

SpecTwo == InitTwo /\ [][Next]_vars

\* Two callers that hold the same handle and take turns calling next() on
\* it; the handle is made from idGenerator or from generatorFunction.
Callers == {"callerA", "callerB"}
SharedHandle == "idGeneratorFunc"

InitCallers ==
    /\ program \in {[h \in Handles |->
                        IF h = SharedHandle THEN P ELSE generatorFunction] :
                    P \in {idGenerator, generatorFunction}}
    /\ InitState

NextCallers ==
    \E c \in Callers : Create(SharedHandle) \/ CallNextBy(c, SharedHandle)

SpecCallers == InitCallers /\ [][NextCallers]_vars

\* The generator script not started.
GenIdle ==
    /\ program = [h \in Handles |->
                    IF h = "generator" THEN generatorFunction ELSE idGenerator]
    /\ state = [h \in Handles |-> "absent"]
    /\ pc = [h \in Handles |-> 1]
    /\ id = [h \in Handles |-> Undefined]
    /\ console = <<>>
    /\ calls = [h \in Handles |-> 0]
    /\ ran = [h \in Handles |-> <<>>]
    /\ history = [h \in Handles |-> <<>>]

\* calculatePrice and printPersonStreet called with any of their arguments.
InitFn ==
    /\ GenIdle
    /\ ClosuresStart
    /\ FnStart
    /\ FreezeStart(FALSE, objectFreezePerson)
    /\ ImportStart("then")

SpecFn == InitFn /\ [][NextFn]_vars

\* objectFreeze.js and its variants, strict or not.
InitFreeze ==
    /\ GenIdle
    /\ ClosuresStart
    /\ FnStart
    /\ \E s \in BOOLEAN, p \in PersonVariants : FreezeStart(s, p)
    /\ ImportStart("then")

SpecFreeze == InitFreeze /\ [][NextFreeze]_vars

\* The three dynamic import snippets.
InitImport ==
    /\ GenIdle
    /\ ClosuresStart
    /\ FnStart
    /\ FreezeStart(FALSE, objectFreezePerson)
    /\ \E v \in Variants : ImportStart(v)

SpecImport == InitImport /\ [][NextImport]_vars

\* closures.js with any assignments to myName and any calls.
InitClosures ==
    /\ GenIdle
    /\ ScriptsStart

SpecClosures == InitClosures /\ [][NextClosures]_vars

-----------------------------------------------------------------------------
\* Helpers of the properties.

\* <<1, ..., n>>
Idx(n) == [i \in 1..n |-> i]

\* The indexes of the yields of a body, in program order.
YieldIdx(prog) == SelectSeq(Idx(Len(prog)), LAMBDA p : IsYield(prog[p]))

\* A body made of log statements and constant yields only.
StraightLine(prog) == \A p \in 1..Len(prog) : prog[p].op \in {"log", "yield"}

\* The lines of the console that come from handle h.
ConsoleOf(h) == SelectSeq(console, LAMBDA e : e.h = h)

\* The call that crosses instruction p of a straight-line body: one more than
\* the number of yields before p.
CrossingCall(prog, p) == 1 + Cardinality({q \in 1..(p - 1) : IsYield(prog[q])})

\* The instructions of a straight-line body that the k-th call executes.
Segment(prog, k) ==
    SelectSeq(Idx(Len(prog)), LAMBDA p : CrossingCall(prog, p) = k)

Occurrences(s, x) == Cardinality({i \in 1..Len(s) : s[i] = x})

RECURSIVE FlatSteps(_)
FlatSteps(hist) ==
    IF hist = <<>> THEN <<>> ELSE Head(hist).steps \o FlatSteps(Tail(hist))

\* The first n instructions a body executes when it is run straight through,
\* a yield not stopping it.
RECURSIVE Straight(_, _, _)
Straight(prog, p, n) ==
    IF n = 0 \/ p > Len(prog) THEN <<>>
    ELSE <<p>> \o Straight(prog,
                           IF prog[p].op = "endwhile" THEN prog[p].num ELSE p + 1,
                           n - 1)

-----------------------------------------------------------------------------
\* C1: for a straight-line body with N yields, the k-th next() call, k <= N,
\* returns { value: the k-th yield's value, done: false } and call N + 1
\* returns { value: undefined, done: true }; for generatorFunction N = 3 and
\* the values are 1, 2, 3.
C1_YieldsInOrderThenDone ==
    \A h \in Handles : StraightLine(program[h]) =>
        LET ys == YieldIdx(program[h])
            N  == Len(ys)
        IN  /\ \A k \in 1..Len(history[h]) :
                 /\ k <= N => /\ history[h][k].value = <<program[h][ys[k]].num>>
                              /\ history[h][k].done = FALSE
                 /\ k = N + 1 => /\ history[h][k].value = Undefined
                                 /\ history[h][k].done = TRUE
            /\ program[h] = generatorFunction =>
                 /\ N = 3
                 /\ \A k \in 1..3 : k <= Len(history[h]) =>
                        history[h][k].value = <<k>>

C1_Witness ==
    /\ program["generator"] = generatorFunction
    /\ Len(history["generator"]) = 4
    /\ history["generator"][3].value = <<3>>
    /\ history["generator"][4].done

\* C2: once a next() call has returned { value: undefined, done: true },
\* every later call on that handle returns the same, raises nothing, executes
\* no instruction and prints no log line; done never goes back to false.
C2_TerminalIsIdempotent ==
    \A h \in Handles :
        /\ \A i \in 1..Len(history[h]) : \A j \in (i + 1)..Len(history[h]) :
              history[h][i].done =>
                 /\ history[h][j].value = Undefined
                 /\ history[h][j].done = TRUE
                 /\ history[h][j].threw = FALSE
                 /\ history[h][j].steps = <<>>
                 /\ history[h][j].logs = <<>>
        /\ LET c == ConsoleOf(h) IN
           \A i \in 1..Len(c) : \A j \in (i + 1)..Len(c) :
              (c[i].kind = "result" /\ c[i].done) =>
                 c[j] = ResultLine(h, Undefined, TRUE)

C2_Witness ==
    /\ program["generator"] = generatorFunction
    /\ Len(history["generator"]) = 6
    /\ history["generator"][4].done
    /\ history["generator"][6].done

\* C3: creating a handle executes no body code: until the first next() call
\* the handle is in its not-yet-started state, has executed no instruction,
\* has printed nothing and has not initialised id.
C3_CreateRunsNothing ==
    \A h \in Handles :
        (state[h] # "absent" /\ calls[h] = 0) =>
            /\ state[h] = "suspendedStart"
            /\ pc[h] = 1
            /\ ran[h] = <<>>
            /\ id[h] = Undefined
            /\ ConsoleOf(h) = <<>>

C3_Witness ==
    /\ state["generator"] = "suspendedStart"
    /\ state["idGeneratorFunc"] = "suspendedStart"
    /\ calls["generator"] = 0
    /\ calls["idGeneratorFunc"] = 0

\* C4: in a straight-line body the k-th next() call executes exactly the
\* instructions after yield k - 1 (or the start) up to yield k (or the end),
\* so each log statement is executed exactly once, by the call that crosses
\* it, and by no other call nor by the creation.
C4_EachStatementOnceOnCrossing ==
    \A h \in Handles : StraightLine(program[h]) =>
        /\ ran[h] = FlatSteps(history[h])
        /\ \A k \in 1..Len(history[h]) :
              /\ history[h][k].steps = Segment(program[h], k)
              /\ Len(history[h][k].logs) =
                    Cardinality({p \in 1..Len(program[h]) :
                                    /\ program[h][p].op = "log"
                                    /\ CrossingCall(program[h], p) = k})
        /\ \A p \in 1..Len(program[h]) : program[h][p].op = "log" =>
              /\ Occurrences(ran[h], p) =
                    IF calls[h] >= CrossingCall(program[h], p) THEN 1 ELSE 0
              /\ \A k \in 1..Len(history[h]) :
                    Occurrences(history[h][k].steps, p) =
                        IF k = CrossingCall(program[h], p) THEN 1 ELSE 0
        /\ Len(SelectSeq(ConsoleOf(h), LAMBDA e : e.kind = "log")) =
              Cardinality({p \in 1..Len(program[h]) :
                              /\ program[h][p].op = "log"
                              /\ CrossingCall(program[h], p) <= calls[h]})

C4_Witness ==
    /\ program["generator"] = <<Yield(1), Log("x"), Yield(2)>>
    /\ calls["generator"] = 3
    /\ history["generator"][1].steps = <<1>>
    /\ history["generator"][2].steps = <<2, 3>>
    /\ history["generator"][3].steps = <<>>

\* C5: for generatorFunction the console shows, after k = 1..4 next() calls,
\* "before 1", (1, false); "after 1", "before 2", (2, false); "after 2",
\* "before 3", (3, false); "after 3", (undefined, true), cut after the k-th
\* result; the fourth call prints "after 3" before it reports done.
generatorTrace ==
    << LogLine("generator", "before 1"), ResultLine("generator", <<1>>, FALSE),
       LogLine("generator", "after 1"), LogLine("generator", "before 2"),
       ResultLine("generator", <<2>>, FALSE),
       LogLine("generator", "after 2"), LogLine("generator", "before 3"),
       ResultLine("generator", <<3>>, FALSE),
       LogLine("generator", "after 3"), ResultLine("generator", Undefined, TRUE) >>

C5_FourCallTrace ==
    LET k == calls["generator"] IN
    k <= 4 => ConsoleOf("generator") =
                 SubSeq(generatorTrace, 1, <<0, 2, 5, 8, 10>>[k + 1])

C5_Witness ==
    /\ calls["generator"] = 4
    /\ Len(ConsoleOf("generator")) = 10
    /\ state["generator"] = "completed"

\* C6: no next() call on the idGenerator handle returns done = true, however
\* many calls were made before it, and the handle never completes.
C6_IdGeneratorNeverDone ==
    /\ \A k \in 1..Len(history["idGeneratorFunc"]) :
          history["idGeneratorFunc"][k].done = FALSE
    /\ state["idGeneratorFunc"] # "completed"
    /\ \A i \in 1..Len(console) :
          (console[i].h = "idGeneratorFunc" /\ console[i].kind = "result") =>
              console[i].done = FALSE

C6_Witness ==
    /\ Len(history["idGeneratorFunc"]) = 6
    /\ history["idGeneratorFunc"][6].done = FALSE
    /\ state["idGeneratorFunc"] = "suspendedYield"

\* C7: the k-th next() call on a fresh idGenerator handle returns
\* { value: k, done: false }: 1, 2, 3, 4, 5, 6 for six calls.
C7_IdGeneratorCountsFromOne ==
    /\ \A k \in 1..Len(history["idGeneratorFunc"]) :
          history["idGeneratorFunc"][k].value = <<k>>
    /\ ConsoleOf("idGeneratorFunc") =
          [k \in 1..calls["idGeneratorFunc"] |->
              ResultLine("idGeneratorFunc", <<k>>, FALSE)]

C7_Witness ==
    /\ Len(history["idGeneratorFunc"]) = 6
    /\ \A k \in 1..6 : history["idGeneratorFunc"][k].value = <<k>>

\* C8: the instructions a handle has executed over all its next() calls, in
\* call order, are a prefix of the run of its body straight through: none
\* skipped, none executed twice, none out of order.
C8_RanIsPrefixOfStraightRun ==
    \A h \in Handles :
        /\ ran[h] = Straight(program[h], 1, Len(ran[h]))
        /\ FlatSteps(history[h]) = ran[h]

C8_Witness ==
    /\ program["generator"] = generatorFunction
    /\ ran["generator"] = <<1, 2, 3, 4, 5, 6, 7, 8, 9>>
    /\ ran["idGeneratorFunc"] = <<1, 2, 3, 4, 5, 2, 3, 4, 5, 2, 3>>

\* C9: a handle never runs ahead of its caller: the number of yields it has
\* reached is at most the number of next() calls made on it, and every
\* instruction it has executed was executed by one of those calls.
C9_NeverAheadOfCaller ==
    \A h \in Handles :
        /\ Len(SelectSeq(ran[h], LAMBDA p : IsYield(program[h][p]))) <= calls[h]
        /\ ran[h] = FlatSteps(history[h])
        /\ calls[h] = 0 => pc[h] = 1

C9_Witness ==
    /\ calls["idGeneratorFunc"] = 3
    /\ Len(SelectSeq(ran["idGeneratorFunc"],
                     LAMBDA p : IsYield(program["idGeneratorFunc"][p]))) = 3
    /\ calls["generator"] = 0
    /\ state["generator"] = "suspendedStart"

\* C10: every next() call on the idGenerator handle returns, having executed
\* one round of the loop and no more: one yield, the last instruction it
\* executes, at most one id++, at most as many instructions as the loop has,
\* and the same instructions in every call after the first.
C10_OneLoopRoundPerCall ==
    LET hist == history["idGeneratorFunc"] IN
    /\ Len(hist) = calls["idGeneratorFunc"]
    /\ \A k \in 1..Len(hist) :
          LET s == hist[k].steps IN
          /\ Len(SelectSeq(s, LAMBDA p : IsYield(idGenerator[p]))) = 1
          /\ IsYield(idGenerator[s[Len(s)]])
          /\ Len(SelectSeq(s, LAMBDA p : idGenerator[p].op = "inc")) <= 1
          /\ Len(s) <= Len(idGenerator) - 1
          /\ k >= 2 => s = hist[2].steps

C10_Witness ==
    /\ Len(history["idGeneratorFunc"]) = 6
    /\ history["idGeneratorFunc"][1].steps = <<1, 2, 3>>
    /\ history["idGeneratorFunc"][6].steps = <<4, 5, 2, 3>>

\* C11: when a statement of the body fails during a next() call, that call
\* is the one that raises: a call raises exactly when the last instruction it
\* executed is the failing one, the failing statement is executed once and
\* never again, and once it has been executed some call has raised.
C11_FailureReachesSameCall ==
    \A h \in Handles :
        /\ \A k \in 1..Len(history[h]) :
              LET s == history[h][k].steps IN
              /\ history[h][k].threw <=>
                    (s # <<>> /\ program[h][s[Len(s)]].op = "throw")
              /\ \A i \in 1..(Len(s) - 1) : program[h][s[i]].op # "throw"
              /\ history[h][k].threw => ~ history[h][k].done
        /\ Cardinality({i \in 1..Len(ran[h]) :
                            program[h][ran[h][i]].op = "throw"}) <= 1
        /\ (\E i \in 1..Len(ran[h]) : program[h][ran[h][i]].op = "throw")
              => \E k \in 1..Len(history[h]) : history[h][k].threw

C11_Witness ==
    /\ program["generator"] = <<Yield(1), Throw, Log("x")>>
    /\ Len(history["generator"]) = 2
    /\ ~ history["generator"][1].threw
    /\ history["generator"][2].threw

\* C12: after a next() call has raised, the generator is terminal: every
\* later call returns { value: undefined, done: true }, raises nothing and
\* executes nothing, so no statement after the failing one is ever executed.
C12_TerminalAfterFailure ==
    \A h \in Handles :
        /\ \A i \in 1..Len(history[h]) : history[h][i].threw =>
              /\ state[h] = "completed"
              /\ \A j \in (i + 1)..Len(history[h]) :
                    /\ history[h][j].value = Undefined
                    /\ history[h][j].done = TRUE
                    /\ history[h][j].threw = FALSE
                    /\ history[h][j].steps = <<>>
                    /\ history[h][j].logs = <<>>
        /\ \A i \in 1..Len(ran[h]) : program[h][ran[h][i]].op = "throw" =>
              i = Len(ran[h])

C12_Witness ==
    /\ program["generator"] = <<Yield(1), Throw, Log("x")>>
    /\ Len(history["generator"]) = 4
    /\ history["generator"][2].threw
    /\ history["generator"][4].done
    /\ ran["generator"] = <<1, 2>>

\* The handle other than h.
Other(h) == CHOOSE g \in Handles : g # h

\* C13: two handles made from idGenerator share nothing: a next() call on one
\* leaves the resume point, the captured id and the state of the other
\* unchanged, and each handle counts from 1 on its own.
C13_HandlesShareNothing ==
    [][\A h \in Handles :
          calls'[h] # calls[h] =>
              /\ pc'[Other(h)] = pc[Other(h)]
              /\ id'[Other(h)] = id[Other(h)]
              /\ state'[Other(h)] = state[Other(h)]
              /\ history'[Other(h)] = history[Other(h)]
              /\ history'[h][calls'[h]].value = <<calls'[h]>>
              /\ id'[h] = <<calls'[h]>>]_vars

C13_Witness ==
    /\ program["generator"] = idGenerator
    /\ program["idGeneratorFunc"] = idGenerator
    /\ id["generator"] = <<2>>
    /\ id["idGeneratorFunc"] = <<5>>

\* C14: with a dynamic import consumed through then(), "in main file" is
\* logged before any "this is a module", in every execution; the "then"
\* snippet ends with exactly these two lines in this order.
C14_MainLogsBeforeThenCallback ==
    variant \in {"then", "clickThen"} =>
        /\ \A i \in 1..Len(out) : out[i] = "this is a module" =>
              \E j \in 1..(i - 1) : out[j] = "in main file"
        /\ (variant = "then" /\ Len(out) = 2) =>
              out = <<"in main file", "this is a module">>
        /\ (variant = "then" /\ mainPc = MainEnd /\ imports = <<"fulfilled">>
                /\ microtasks = <<>>) =>
              out = <<"in main file", "this is a module">>

C14_Witness ==
    /\ variant = "then"
    /\ imports = <<"fulfilled">>
    /\ microtasks = <<>>
    /\ out = <<"in main file", "this is a module">>

\* C15 as claimed: with the async/await click listener, printModule() has
\* logged "this is a module" before "in main file" is logged.
C15_ModuleBeforeMain ==
    variant = "clickAwait" =>
        \A i \in 1..Len(out) : out[i] = "in main file" =>
            \E j \in 1..(i - 1) : out[j] = "this is a module"

\* C16: calculatePrice uses the default tax .05 exactly when taxes is null
\* or undefined and the passed value otherwise, 0 included:
\* calculatePrice(100, 0, ...) logs a total of 100, not 105 (totals in
\* hundredths).
C16_DefaultTaxOnlyWhenNullish ==
    \A i \in 1..Len(priceOut) :
        LET e == priceOut[i] IN
        /\ e.taxes.kind \in {"null", "undefined"} =>
              e.line.total = e.price * 105
        /\ e.taxes.kind = "number" =>
              e.line.total = e.price * (100 + e.taxes.n)
        /\ (e.price = 100 /\ e.taxes = Num(0)) =>
              (e.line.total = 10000 /\ e.line.total # 10500)

C16_Witness ==
    /\ Len(priceOut) = 2
    /\ priceOut[1].price = 100 /\ priceOut[1].taxes = Num(0)
    /\ priceOut[1].line.total = 10000
    /\ priceOut[2].price = 100 /\ priceOut[2].taxes = UndefinedV
    /\ priceOut[2].line.total = 10500

\* C17: printPersonStreet never raises: it logs undefined when person is
\* undefined or person.address is undefined, and person.address.street when
\* both exist.
C17_PrintPersonStreetNeverRaises ==
    \A i \in 1..Len(streetOut) :
        LET e == streetOut[i] IN
        /\ e.res.threw = FALSE
        /\ e.person.kind = "undefined" => e.res.logged = UndefinedV
        /\ (e.person.kind = "object" /\ e.person.address.kind = "undefined") =>
              e.res.logged = UndefinedV
        /\ (e.person.kind = "object" /\ e.person.address.kind = "object") =>
              e.res.logged = e.person.address.street

C17_Witness ==
    /\ Len(streetOut) = 2
    /\ streetOut[1].person = UndefPerson
    /\ streetOut[1].res.logged = UndefinedV
    /\ streetOut[2].person.kind = "object"
    /\ streetOut[2].person.address.kind = "object"
    /\ streetOut[2].res.logged = Num(123)

\* Statement k of objectFreeze has been executed (and, if it raised, is the
\* one that raised).
FExecuted(k) == fpc > k /\ (ferrAt = 0 \/ ferrAt >= k)

\* C18: in non-strict code the assignment person.name = "john" to a frozen
\* person raises nothing and changes nothing: name stays 'shay', and when the
\* script changes nothing else the second console.log(person) prints what
\* the first printed.
C18_FrozenAssignmentIsSilentNoOp ==
    (~ strict /\ person.frozen) =>
        /\ ferrAt # 2
        /\ person.name = "shay"
        /\ \A i \in 1..Len(fout) : fout[i].name = "shay"
        /\ FExecuted(2) => fpc > 2 /\ ferrAt # 2
        /\ (Len(fout) = 2 /\ ~ person.hobbies.exists
                /\ (~ person.address.exists \/ person.address.frozen)) =>
              fout[2] = fout[1]

C18_Witness ==
    /\ ~ strict
    /\ person.frozen
    /\ ~ person.address.exists
    /\ ~ person.hobbies.exists
    /\ Len(fout) = 2
    /\ fout[2] = fout[1]

\* C19: Object.freeze is shallow: once person.address.street = 6587 has been
\* executed without raising, street is 6587 when the address object is not
\* frozen, the frozen state of person being of no account, and is still 123
\* when the address object is frozen, as in objectFreeze.js.
C19_FreezeIsShallow ==
    person.address.exists =>
        /\ ~ FExecuted(3) => person.address.street = 123
        /\ (FExecuted(3) /\ ~ person.address.frozen) =>
              (person.address.street = 6587 /\ ferrAt # 3)
        /\ person.address.frozen => person.address.street = 123
        /\ (person.address.frozen /\ ~ strict) => ferrAt # 3

C19_Witness ==
    /\ person.frozen
    /\ person.address.exists
    /\ ~ person.address.frozen
    /\ person.address.street = 6587
    /\ Len(fout) = 2
    /\ fout[1].address.street = 123
    /\ fout[2].address.street = 6587

\* C20: push() on a frozen array raises, strict code or not: the array keeps
\* its two elements, the script ends at the push (or at an earlier raising
\* assignment in strict code) and the second console.log(person) is not
\* executed.
C20_PushOnFrozenArrayRaises ==
    (person.hobbies.exists /\ person.hobbies.frozen) =>
        /\ person.hobbies.items = <<"eating", "sleeping">>
        /\ Len(fout) <= 1
        /\ fpc # 5
        /\ fpc = FEnd => ferrAt \in {2, 3, 4}
        /\ (fpc = FEnd /\ ~ strict) => ferrAt = 4

C20_Witness ==
    /\ ~ strict
    /\ person = objectFreezePerson
    /\ fpc = FEnd
    /\ ferrAt = 4
    /\ Len(fout) = 1

\* C23: in idGenerator the increment runs on resumption: whenever the handle
\* is suspended after k >= 1 next() calls, id is k, the value just returned;
\* the first call executes no id++, and every later call executes id++ once,
\* as the first thing it does.
C23_IdEqualsLastYield ==
    LET h    == "idGeneratorFunc"
        hist == history[h]
    IN
    /\ (state[h] = "suspendedYield" /\ calls[h] >= 1) =>
          /\ id[h] = <<calls[h]>>
          /\ id[h] = hist[calls[h]].value
    /\ \A k \in 1..Len(hist) :
          LET incs == SelectSeq(hist[k].steps,
                                LAMBDA p : idGenerator[p].op = "inc")
          IN  /\ Len(incs) = (IF k = 1 THEN 0 ELSE 1)
              /\ k >= 2 => idGenerator[hist[k].steps[1]].op = "inc"

C23_Witness ==
    /\ state["idGeneratorFunc"] = "suspendedYield"
    /\ calls["idGeneratorFunc"] = 4
    /\ id["idGeneratorFunc"] = <<4>>
    /\ history["idGeneratorFunc"][4].steps = <<4, 5, 2, 3>>

\* What n next() calls of one caller return on a handle that is in state st
\* at resume point p with captured id env.
RECURSIVE RunAlone(_, _, _, _, _)
RunAlone(prog, st, p, env, n) ==
    IF n = 0 THEN <<>>
    ELSE LET r == Resume(prog, st, p, env) IN
         <<[value |-> r.value, done |-> r.done]>>
             \o RunAlone(prog, r.state, r.pc, r.id, n - 1)

\* C24: when two callers take turns calling next() on one handle, in any
\* order of turns, each call belongs to one caller, no yielded value is
\* returned twice, none is left out, and the results of both callers in call
\* order are those a single caller gets.
C24_TurnTakingCallersShareOneSequence ==
    LET hist   == history[SharedHandle]
        n      == Len(hist)
        yields == {k \in 1..n : ~ hist[k].done}
    IN
    /\ \A k \in 1..n : hist[k].by \in Callers
    /\ [k \in 1..n |-> [value |-> hist[k].value, done |-> hist[k].done]]
          = RunAlone(program[SharedHandle], "suspendedStart", 1, Undefined, n)
    /\ \A k1, k2 \in yields : k1 # k2 => hist[k1].value # hist[k2].value
    /\ {hist[k].value : k \in yields} = {<<v>> : v \in 1..Cardinality(yields)}
    /\ program[SharedHandle] = idGenerator =>
          \A k \in 1..n : hist[k].value = <<k>> /\ ~ hist[k].done

C24_Witness ==
    /\ program[SharedHandle] = idGenerator
    /\ Len(history[SharedHandle]) = 4
    /\ history[SharedHandle][1].by = "callerA"
    /\ history[SharedHandle][2].by = "callerB"
    /\ history[SharedHandle][3].by = "callerB"
    /\ history[SharedHandle][4].by = "callerA"
    /\ history[SharedHandle][4].value = <<4>>

\* C21: printName() logs the value myName has when it is called, which is
\* the value of the last assignment before the call, not the value at the
\* declaration of the function: called after myName = "Yossi" it logs
\* "Yossi".
C21_PrintNameReadsCurrentValue ==
    \A i \in 1..Len(nameOut) :
        /\ nameOut[i].printed = assigned[nameOut[i].after]
        /\ (nameOut[i].after = 2 /\ assigned[2] = "Yossi") =>
              nameOut[i].printed = "Yossi"

C21_Witness ==
    /\ assigned = <<"shay", "Yossi">>
    /\ nameOut = <<[printed |-> "Yossi", after |-> 2]>>

\* C22: a function returned by outerFunction logs, whenever it is called
\* after that call of outerFunction has returned, the argument of its own
\* outerFunction call, its own argument and outerConst; newFunction("inside")
\* logs outside, inside, im an outer variable.
C22_ReturnedFunctionKeepsItsScope ==
    \A i \in 1..Len(innerOut) :
        LET e == innerOut[i] IN
        /\ e.lines = << <<"Outer variable: ", outerArgs[e.fn]>>,
                        <<"Inner variable: ", e.innerVariable>>,
                        <<"Outer const: ", "im an outer variable">> >>
        /\ (outerArgs[e.fn] = "outside" /\ e.innerVariable = "inside") =>
              e.lines = << <<"Outer variable: ", "outside">>,
                           <<"Inner variable: ", "inside">>,
                           <<"Outer const: ", "im an outer variable">> >>

C22_Witness ==
    /\ outerArgs = <<"outside", "other">>
    /\ Len(innerOut) = 2
    /\ innerOut[1].fn = 1
    /\ innerOut[1].lines[1] = <<"Outer variable: ", "outside">>
    /\ innerOut[2].fn = 2
    /\ innerOut[2].lines[1] = <<"Outer variable: ", "other">>

TypeOK ==
    /\ state \in [Handles -> {"absent", "suspendedStart", "suspendedYield", "completed"}]
    /\ \A h \in Handles : calls[h] \in 0..MaxCalls /\ Len(history[h]) = calls[h]
====
